---------------------------- MODULE Spec2Model ----------------------------
(***************************************************************************)
(* The two scripts of the repository as state machines.                    *)
(*                                                                         *)
(*   install-cert-ssh.py       SpecInstall : main() from the check of the  *)
(*                             certificate files to the process exit.      *)
(*   vss-to-svg-converter.py   SpecConvert : the __main__ dispatch, the    *)
(*                             single-file conversion and the batch loop.  *)
(*                                                                         *)
(* Both are single sequential processes: pc is the position in the script, *)
(* printed the lines written so far, exit_code the process exit status     *)
(* once pc = "exited".  What the scripts do not control (the files on      *)
(* disk, what the expect sessions return, what the diagram library can     *)
(* load) is chosen in Init or drawn with \E in the action that reads it.   *)
(***************************************************************************)
EXTENDS Integers, Sequences, FiniteSets, TLC

VARIABLES
    pc,             \* position in the running script
    printed,        \* messages written to stdout / stderr so far
    exit_code,      \* process exit status, meaningful when pc = "exited"
    \* ---- install-cert-ssh.py
    cert_file,      \* state of ./certificates/fortigate.crt on disk
    key_file,       \* state of ./certificates/fortigate.key on disk
    sessions,       \* the expect sessions attempted so far, in order
    \* ---- vss-to-svg-converter.py
    argv,           \* sys.argv[1:]
    fs,             \* the filesystem: path -> [kind, content]
    fs0,            \* the filesystem when the current run started
    bad,            \* contents the diagram library cannot load
    vss_files,      \* batch: the matched names, in os.listdir order
    idx,            \* batch: number of entries of vss_files already handled
    success_count,  \* batch: conversions that returned True
    calls,          \* convert_vss_to_svg calls of this run: <<input, output>>
    loads,          \* paths given to Diagram(...) in this run
    saves,          \* paths given to diagram.save(...) in this run
    run,            \* number of the current run of the converter
    prev            \* what the previous run left: its calls and its files

vars == <<pc, printed, exit_code, cert_file, key_file, sessions,
          argv, fs, fs0, bad, vss_files, idx, success_count,
          calls, loads, saves, run, prev>>

convertVars == <<argv, fs, fs0, bad, vss_files, idx, success_count,
                 calls, loads, saves, run, prev>>

installVars == <<cert_file, key_file, sessions>>

\* ------------------------------------------------------------------ bounds

\* Longest captured stdout of an expect session, in tokens.
MaxOut == 2

(***************************************************************************)
(*                         install-cert-ssh.py                             *)
(***************************************************************************)

\* A file the script tests with os.path.exists and then opens: it is absent,
\* a readable file, or there but not readable as text (a directory, no read
\* permission, bytes that do not decode), in which case open/read raises.
FileStates == {"missing", "readable", "unreadable"}

\* Exit statuses of the expect process: 0, a failure, killed by a signal.
RetCodes == {0, 1, -9}

\* Captured stdout, as a sequence of tokens; "Version:" is the literal the
\* script looks for, "version:" differs from it in case only.
Tokens == {"Version:", "version:", "denied"}

RECURSIVE SeqsUpTo(_, _)
SeqsUpTo(S, n) ==
    IF n = 0 THEN {<<>>}
    ELSE LET shorter == SeqsUpTo(S, n - 1)
         IN  shorter \cup {Append(s, x) : s \in {t \in shorter : Len(t) = n - 1}, x \in S}

Outputs == SeqsUpTo(Tokens, MaxOut)

\* `needle in stdout` for a one-token needle.
Contains(stdout, needle) == \E i \in 1..Len(stdout) : stdout[i] = needle

\* os.path.exists(path)
Exists_(state) == state # "missing"

\* What subprocess.Popen(['expect'], ...) followed by proc.communicate(script)
\* can give the script: the exit status and captured stdout, or an exception
\* (expect is not installed, the output does not decode).
SessionResults ==
    [raised : {FALSE}, returncode : RetCodes, stdout : Outputs]
        \cup {[raised |-> TRUE, returncode |-> 0, stdout |-> <<>>]}

\* line 57: the guard of the "not found" exit.
FilesMissing == ~Exists_(cert_file) \/ ~Exists_(key_file)

\* The guard of line 87 without its test of the captured output.
ConnectFailedStatusOnly(r) == r.returncode # 0

\* line 87: the guard of the connectivity failure exit.
ConnectFailed(r) == r.returncode # 0 \/ ~Contains(r.stdout, "Version:")

\* The guard of line 133 testing for the status 1 alone.
InstallFailedStatusOne(r) == r.returncode = 1

\* line 133: the guard of the upload failure exit.
InstallFailed(r) == r.returncode # 0

\* line 165: the guard of the HTTPS-binding failure exit.
ConfigFailed(r) == r.returncode # 0

\* sys.exit(code), or the interpreter ending on an uncaught exception (1).
Exit(code, msgs) ==
    /\ pc' = "exited"
    /\ exit_code' = code
    /\ printed' = printed \o msgs

\* lines 48-60: banner, then the check of the two certificate files.
CheckFiles ==
    /\ pc = "start"
    /\ IF FilesMissing
       THEN Exit(1, <<"banner", "files_not_found">>)
       ELSE /\ pc' = "read"
            /\ printed' = printed \o <<"banner">>
            /\ UNCHANGED exit_code
    /\ UNCHANGED <<installVars, convertVars>>

\* lines 63-71: read both files (read_file raises on an unreadable one, and
\* nothing catches it), escape the quotes, announce step 1.
ReadCerts ==
    /\ pc = "read"
    /\ IF cert_file = "unreadable" \/ key_file = "unreadable"
       THEN Exit(1, <<"reading", "traceback">>)
       ELSE /\ pc' = "step1"
            /\ printed' = printed \o <<"reading", "step1">>
            /\ UNCHANGED exit_code
    /\ UNCHANGED <<installVars, convertVars>>

Attempt(step, r) == sessions' = Append(sessions, [step |-> step, result |-> r])

\* lines 73-95: the connectivity-test session.
TestConnection ==
    /\ pc = "step1"
    /\ \E r \in SessionResults :
        /\ Attempt("test", r)
        /\ IF r.raised
           THEN Exit(1, <<"traceback">>)
           ELSE IF ConnectFailed(r)
           THEN Exit(1, <<"connect_failed">>)
           ELSE /\ pc' = "step2"
                /\ printed' = printed \o <<"ssh_ok", "step2">>
                /\ UNCHANGED exit_code
    /\ UNCHANGED <<cert_file, key_file, convertVars>>

\* lines 98-141: the certificate-upload session.
InstallCertificate ==
    /\ pc = "step2"
    /\ \E r \in SessionResults :
        /\ Attempt("install", r)
        /\ IF r.raised
           THEN Exit(1, <<"traceback">>)
           ELSE IF InstallFailed(r)
           THEN Exit(1, <<"install_failed">>)
           ELSE /\ pc' = "step3"
                /\ printed' = printed \o <<"installed", "step3">>
                /\ UNCHANGED exit_code
    /\ UNCHANGED <<cert_file, key_file, convertVars>>

\* lines 143-182: the HTTPS-binding session, then the closing messages; main
\* returns and the interpreter exits 0.
ConfigureHttps ==
    /\ pc = "step3"
    /\ \E r \in SessionResults :
        /\ Attempt("config", r)
        /\ IF r.raised
           THEN Exit(1, <<"traceback">>)
           ELSE IF ConfigFailed(r)
           THEN Exit(1, <<"config_failed">>)
           ELSE Exit(0, <<"https_ok", "completed">>)
    /\ UNCHANGED <<cert_file, key_file, convertVars>>

\* The converter's variables while the installer runs.
ConvertIdle ==
    /\ argv = <<>>
    /\ fs = <<>>
    /\ fs0 = <<>>
    /\ bad = {}
    /\ vss_files = <<>>
    /\ idx = 0
    /\ success_count = 0
    /\ calls = <<>>
    /\ loads = <<>>
    /\ saves = <<>>
    /\ run = 0
    /\ prev = <<>>

InitInstall ==
    /\ pc = "start"
    /\ printed = <<>>
    /\ exit_code = 0
    /\ cert_file \in FileStates
    /\ key_file \in FileStates
    /\ sessions = <<>>
    /\ ConvertIdle

NextInstall ==
    \/ CheckFiles
    \/ ReadCerts
    \/ TestConnection
    \/ InstallCertificate
    \/ ConfigureHttps

SpecInstall == InitInstall /\ [][NextInstall]_vars

(***************************************************************************)
(*                       vss-to-svg-converter.py                           *)
(*                                                                         *)
(* A name is a sequence of characters, a path a sequence of names (the     *)
(* separators that os.path.join puts between them are implicit).  Each     *)
(* command line argument is a path of one name.                            *)
(***************************************************************************)

\* Most arguments after the script name.
MaxArgs == 3

\* Most entries of the input directory.
MaxFiles == 2

\* Runs of the same command line, one after the other.
MaxRuns == 2

BatchFlag == <<"-", "-", "b", "a", "t", "c", "h">>
InName    == <<"i", "n">>
OutName   == <<"o", "u", "t">>

\* The strings a command line argument is drawn from.
ArgPool == {<<BatchFlag>>, <<InName>>, <<OutName>>}

\* The names an entry of the input directory is drawn from:
\* a.vss  a.VSS  a.b.vss  a.vss.txt  .vss  .vss.vss
NamePool ==
    { <<"a", ".", "v", "s", "s">>,
      <<"a", ".", "V", "S", "S">>,
      <<"a", ".", "b", ".", "v", "s", "s">>,
      <<"a", ".", "v", "s", "s", ".", "t", "x", "t">>,
      <<".", "v", "s", "s">>,
      <<".", "v", "s", "s", ".", "v", "s", "s">> }

VssSuffix == <<".", "v", "s", "s">>
SvgSuffix == <<".", "s", "v", "g">>

\* ------------------------------------------------------------ str and os.path

\* str.lower(), on the characters of the model's alphabet.
LowerChar(c) ==
    CASE c = "V" -> "v"
      [] c = "S" -> "s"
      [] OTHER -> c

Lower(name) == [i \in 1..Len(name) |-> LowerChar(name[i])]

\* str.endswith(suffix)
EndsWith(name, suffix) ==
    /\ Len(name) >= Len(suffix)
    /\ SubSeq(name, Len(name) - Len(suffix) + 1, Len(name)) = suffix

\* The filter of line 60 without str.lower().
IsVssNameCaseSensitive(name) == EndsWith(name, VssSuffix)

\* The filter of line 60 as a substring test.
IsVssNameAnywhere(name) ==
    \E i \in 1..Len(name) :
        i + Len(VssSuffix) - 1 <= Len(name)
            /\ SubSeq(Lower(name), i, i + Len(VssSuffix) - 1) = VssSuffix

\* line 60: the filter of the batch listing.
IsVssName(name) == EndsWith(Lower(name), VssSuffix)

\* os.path.splitext(name)[0] for a name without separators: the name is cut
\* at its last dot, unless only dots come before that dot.
SplitextRoot(name) ==
    LET dots == {i \in 1..Len(name) : name[i] = "."}
    IN  IF dots = {} THEN name
        ELSE LET dotIndex == CHOOSE i \in dots : \A j \in dots : j <= i
             IN  IF \E k \in 1..(dotIndex - 1) : name[k] # "."
                 THEN SubSeq(name, 1, dotIndex - 1)
                 ELSE name

\* line 72: the output file name of a matched name.
OutputFileName(vss_file) == SplitextRoot(vss_file) \o SvgSuffix

\* os.path.join(dir, name)
Join(dir, name) == Append(dir, name)

\* ------------------------------------------------------------- the filesystem

Dir == [kind |-> "dir", content |-> <<>>]
File(content) == [kind |-> "file", content |-> content]

\* os.path.exists / os.path.isdir
PathExists(f, p) == p \in DOMAIN f
IsDir(f, p) == p \in DOMAIN f /\ f[p].kind = "dir"

\* os.listdir(d): the names of the entries of d.
ListDir(f, d) ==
    {p[Len(p)] : p \in {q \in DOMAIN f : Len(q) = Len(d) + 1 /\ SubSeq(q, 1, Len(d)) = d}}

Put(f, p, entry) == [q \in DOMAIN f \cup {p} |-> IF q = p THEN entry ELSE f[q]]

\* os.makedirs(output_dir, exist_ok=True) raises FileExistsError when the
\* path is there and is not a directory.
MakedirsRaises(f, d) == PathExists(f, d) /\ ~IsDir(f, d)
Makedirs(f, d) == IF PathExists(f, d) THEN f ELSE Put(f, d, Dir)

\* ---------------------------------------------------------- the diagram library

\* Diagram(input_path) loads a file whose content the library can parse: not
\* a missing path, not a directory, not a content in `bad`, not an SVG file.
CanLoad(f, p) ==
    /\ PathExists(f, p)
    /\ f[p].kind = "file"
    /\ f[p].content[1] = "visio"
    /\ f[p].content \notin bad

\* diagram.save(output_path, SaveFileFormat.SVG) cannot replace a directory.
CanSave(f, p) == ~IsDir(f, p)

\* The SVG the library writes is a function of the content it loaded.
SvgOf(content) == <<"svg", content[2]>>

\* lines 23-44: the value convert_vss_to_svg returns.
ConvertResult(f, input_path, output_path) ==
    CanLoad(f, input_path) /\ CanSave(f, output_path)

\* The save of line 38 made to the output path with its extension forced to
\* .svg.
ConvertWritesSvgExtension(f, input_path, output_path) ==
    IF ConvertResult(f, input_path, output_path)
    THEN Put(f, Join(SubSeq(output_path, 1, Len(output_path) - 1),
                     OutputFileName(output_path[Len(output_path)])),
             File(SvgOf(f[input_path].content)))
    ELSE f

\* lines 34-38: the filesystem after convert_vss_to_svg.
ConvertWrites(f, input_path, output_path) ==
    IF ConvertResult(f, input_path, output_path)
    THEN Put(f, output_path, File(SvgOf(f[input_path].content)))
    ELSE f

\* --------------------------------------------------------------- messages

Msg(text) == [msg |-> text, path |-> <<>>, m |-> 0, n |-> 0]
MsgPath(text, p) == [msg |-> text, path |-> p, m |-> 0, n |-> 0]
MsgCount(text, m, n) == [msg |-> text, path |-> <<>>, m |-> m, n |-> n]

\* lines 33-43: what convert_vss_to_svg prints.
ConvertPrints(f, input_path, output_path) ==
    <<MsgPath("loading", input_path)>>
    \o (IF CanLoad(f, input_path) THEN <<MsgPath("converting", output_path)>> ELSE <<>>)
    \o (IF ConvertResult(f, input_path, output_path)
        THEN <<MsgPath("converted", output_path)>>
        ELSE <<MsgPath("error", input_path)>>)

\* One call of convert_vss_to_svg: the call, the load, the save (when the
\* load did not raise), the file written and the lines printed.
Convert(input_path, output_path) ==
    /\ calls' = Append(calls, [input |-> input_path, output |-> output_path,
                               ok |-> ConvertResult(fs, input_path, output_path)])
    /\ loads' = Append(loads, input_path)
    /\ saves' = IF CanLoad(fs, input_path) THEN Append(saves, output_path) ELSE saves
    /\ fs' = ConvertWrites(fs, input_path, output_path)

\* ----------------------------------------------------------------- dispatch

\* line 81
IsSingleForm(args) == Len(args) = 2

\* line 92
IsBatchForm(args) == Len(args) = 3 /\ args[1] = <<BatchFlag>>

\* line 86: the input of a single-file conversion is there.
InputFound(f, input_file) == PathExists(f, input_file)

\* The check of line 97 made with os.path.exists.
InputDirFoundAnyKind(f, input_dir) == PathExists(f, input_dir)

\* line 97: the input directory of a batch conversion is there.
InputDirFound(f, input_dir) == IsDir(f, input_dir)

\* The exit status after convert_vss_to_svg returned `ok` in single-file
\* mode: the script falls off its end.
SingleExitCode(ok) == 0

\* An exit status that reports failed conversions.
BatchExitCodeOnFailures(successes, total) == IF successes = total THEN 0 ELSE 1

\* The exit status after the batch summary: batch_convert_directory returns
\* and the script falls off its end.
BatchExitCode(successes, total) == 0

\* lines 80-107 up to the call of the conversion: the form of the command
\* line and the check of the input path.
Dispatch ==
    /\ pc = "start"
    /\ IF IsSingleForm(argv)
       THEN IF ~InputFound(fs, argv[1])
            THEN Exit(1, <<MsgPath("input_not_found", argv[1])>>)
            ELSE pc' = "single" /\ UNCHANGED <<printed, exit_code>>
       ELSE IF IsBatchForm(argv)
       THEN IF ~InputDirFound(fs, argv[2])
            THEN Exit(1, <<MsgPath("dir_not_found", argv[2])>>)
            ELSE pc' = "batch" /\ UNCHANGED <<printed, exit_code>>
       ELSE Exit(1, <<Msg("usage")>>)
    /\ UNCHANGED <<installVars, argv, fs, fs0, bad, vss_files, idx,
                   success_count, calls, loads, saves, run, prev>>

\* line 90: the single-file conversion, then the end of the script.
SingleConvert ==
    /\ pc = "single"
    /\ Convert(argv[1], argv[2])
    /\ Exit(SingleExitCode(ConvertResult(fs, argv[1], argv[2])),
            ConvertPrints(fs, argv[1], argv[2]))
    /\ UNCHANGED <<installVars, argv, fs0, bad, vss_files, idx,
                   success_count, run, prev>>

\* The orders os.listdir may give the names of S in.
Orders(S) ==
    {s \in [1..Cardinality(S) -> S] : \A i, j \in 1..Cardinality(S) : s[i] = s[j] => i = j}

\* lines 55-67: create the output directory, list the input directory and
\* keep the matching names.
BatchList ==
    /\ pc = "batch"
    /\ IF MakedirsRaises(fs, argv[3])
       THEN /\ Exit(1, <<Msg("traceback")>>)
            /\ UNCHANGED <<fs, vss_files>>
       ELSE /\ fs' = Makedirs(fs, argv[3])
            /\ vss_files' \in Orders({n \in ListDir(fs', argv[2]) : IsVssName(n)})
            /\ IF vss_files' = <<>>
               THEN Exit(0, <<MsgPath("no_vss_files", argv[2])>>)
               ELSE /\ pc' = "loop"
                    /\ printed' = Append(printed, MsgCount("found", 0, Len(vss_files')))
                    /\ UNCHANGED exit_code
    /\ UNCHANGED <<installVars, argv, fs0, bad, idx, success_count,
                   calls, loads, saves, run, prev>>

\* lines 70-76: one iteration of the loop over vss_files.
BatchConvertNext ==
    /\ pc = "loop"
    /\ idx < Len(vss_files)
    /\ LET vss_file    == vss_files[idx + 1]
           input_path  == Join(argv[2], vss_file)
           output_path == Join(argv[3], OutputFileName(vss_file))
       IN  /\ Convert(input_path, output_path)
           /\ printed' = printed \o ConvertPrints(fs, input_path, output_path)
           /\ success_count' = IF ConvertResult(fs, input_path, output_path)
                               THEN success_count + 1
                               ELSE success_count
    /\ idx' = idx + 1
    /\ UNCHANGED <<installVars, pc, exit_code, argv, fs0, bad, vss_files, run, prev>>

\* line 78: the summary, after the last iteration; then the end of the script.
BatchSummary ==
    /\ pc = "loop"
    /\ idx = Len(vss_files)
    /\ Exit(BatchExitCode(success_count, Len(vss_files)),
            <<MsgCount("summary", success_count, Len(vss_files))>>)
    /\ UNCHANGED <<installVars, convertVars>>

\* The same command line is run again on what the run before left on disk.
Rerun ==
    /\ pc = "exited"
    /\ run < MaxRuns
    /\ run' = run + 1
    /\ prev' = [calls |-> {calls[i] : i \in 1..Len(calls)}, fs0 |-> fs0, fs |-> fs,
                exit_code |-> exit_code]
    /\ pc' = "start"
    /\ printed' = <<>>
    /\ exit_code' = 0
    /\ fs0' = fs
    /\ vss_files' = <<>>
    /\ idx' = 0
    /\ success_count' = 0
    /\ calls' = <<>>
    /\ loads' = <<>>
    /\ saves' = <<>>
    /\ UNCHANGED <<installVars, argv, fs, bad>>

\* The content of the file first found at path p.
Visio(p) == <<"visio", p>>

\* The filesystems a run may start on: each argument path is absent, a file
\* or a directory, and the directory "in" holds at most MaxFiles files.
InitialFilesystems ==
    LET Kinds == {"none", "file", "dir"}
        Top(kIn, kOut, kFlag) ==
            {<<p, k>> \in {<<<<InName>>, kIn>>, <<<<OutName>>, kOut>>, <<<<BatchFlag>>, kFlag>>} :
                k # "none"}
        Build(top, entries) ==
            LET paths == {t[1] : t \in top} \cup {Join(<<InName>>, e) : e \in entries}
            IN  [p \in paths |->
                    IF \E t \in top : t[1] = p /\ t[2] = "dir" THEN Dir ELSE File(Visio(p))]
    IN  {Build(Top(kIn, kOut, kFlag), entries) :
            kIn \in Kinds, kOut \in Kinds, kFlag \in {"none", "file"},
            entries \in {E \in SUBSET NamePool : Cardinality(E) <= MaxFiles}}

InitConvert ==
    /\ pc = "start"
    /\ printed = <<>>
    /\ exit_code = 0
    /\ cert_file = "missing"
    /\ key_file = "missing"
    /\ sessions = <<>>
    /\ argv \in SeqsUpTo(ArgPool, MaxArgs)
    /\ fs \in {f \in InitialFilesystems :
                  \A p \in DOMAIN f : Len(p) = 2 => IsDir(f, <<InName>>)}
    /\ fs0 = fs
    /\ bad \in SUBSET {fs[p].content : p \in {q \in DOMAIN fs : fs[q].kind = "file"}}
    /\ vss_files = <<>>
    /\ idx = 0
    /\ success_count = 0
    /\ calls = <<>>
    /\ loads = <<>>
    /\ saves = <<>>
    /\ run = 1
    /\ prev = <<>>

NextConvert ==
    \/ Dispatch
    \/ SingleConvert
    \/ BatchList
    \/ BatchConvertNext
    \/ BatchSummary
    \/ Rerun

SpecConvert == InitConvert /\ [][NextConvert]_vars

\* ------------------------------------------------- claims on the installer

\* The session attempted for `step` returned (did not raise) and satisfies P.
Returned(step) ==
    {i \in 1..Len(sessions) : sessions[i].step = step /\ ~sessions[i].result.raised}

SomeRaised == \E i \in 1..Len(sessions) : sessions[i].result.raised

\* The four grounds the claim lists for exit code 1, read off the log of
\* sessions and the files on disk.
ListedFailure ==
    \/ cert_file = "missing"
    \/ key_file = "missing"
    \/ \E i \in Returned("test") :
           \/ sessions[i].result.returncode # 0
           \/ \A k \in 1..Len(sessions[i].result.stdout) :
                  sessions[i].result.stdout[k] # "Version:"
    \/ \E i \in Returned("install") : sessions[i].result.returncode # 0
    \/ \E i \in Returned("config") : sessions[i].result.returncode # 0

\* An uncaught exception ended main: read_file raised on a certificate file
\* that exists but cannot be read, or starting / reading an expect session
\* raised.
UncaughtException ==
    \/ /\ cert_file # "missing"
       /\ key_file # "missing"
       /\ cert_file = "unreadable" \/ key_file = "unreadable"
    \/ SomeRaised

\* C1 as stated: the exit code is 1 exactly when a certificate file is
\* missing, the connectivity test returns non-zero or lacks "Version:", the
\* upload returns non-zero or the HTTPS binding returns non-zero; it is 0 in
\* every other case.
C1_Original ==
    pc = "exited" =>
        /\ exit_code = 1 <=> ListedFailure
        /\ ~ListedFailure => exit_code = 0

\* C1 amended: the exit code is 1 exactly when one of the four listed
\* failures holds or an uncaught exception ended main (a certificate file
\* exists but cannot be read, or an expect session could not be run); it is 0
\* in every other case, and the stdout of the upload and binding sessions
\* plays no part.
C1_ExitCode ==
    pc = "exited" =>
        /\ exit_code \in {0, 1}
        /\ exit_code = 1 <=> (ListedFailure \/ UncaughtException)

\* C1 witness: all three sessions returned, the binding session with output
\* naming a version but a non-zero status, and the process exited.
C1_Witness ==
    /\ pc = "exited"
    /\ Len(sessions) = 3
    /\ ~SomeRaised
    /\ sessions[3].result.returncode # 0
    /\ sessions[3].result.stdout = <<"Version:">>

SessionSucceeded(i) ==
    /\ ~sessions[i].result.raised
    /\ sessions[i].result.returncode = 0
    /\ sessions[i].step = "test" =>
           \E k \in 1..Len(sessions[i].result.stdout) :
               sessions[i].result.stdout[k] = "Version:"

SessionFailed(i) ==
    /\ ~sessions[i].result.raised
    /\ ~SessionSucceeded(i)

StepOrder == <<"test", "install", "config">>

FailureMessage(step) ==
    CASE step = "test" -> "connect_failed"
      [] step = "install" -> "install_failed"
      [] step = "config" -> "config_failed"

\* C2: the sessions run in the order test, install, config, each at most
\* once; none before both files were found; each one only after the one
\* before it succeeded; a step whose session failed prints its failure
\* message and ends the script with code 1 before any later session; three
\* successes in that order end it with code 0.
C2_StepOrder ==
    /\ Len(sessions) <= 3
    /\ \A i \in 1..Len(sessions) : sessions[i].step = StepOrder[i]
    /\ Len(sessions) >= 1 => cert_file # "missing" /\ key_file # "missing"
    /\ \A i \in 1..Len(sessions) : i > 1 => SessionSucceeded(i - 1)
    /\ \A i \in 1..Len(sessions) :
           SessionFailed(i) =>
               /\ i = Len(sessions)
               /\ pc = "exited"
               /\ exit_code = 1
               /\ printed[Len(printed)] = FailureMessage(sessions[i].step)
    /\ (pc = "exited" /\ Len(sessions) = 3 /\ SessionSucceeded(3)) => exit_code = 0
    /\ (pc = "exited" /\ exit_code = 0) =>
           /\ Len(sessions) = 3
           /\ \A i \in 1..3 : SessionSucceeded(i)

\* C2 witness: the connectivity test succeeded, the upload returned a
\* non-zero status, and the script ended there.
C2_Witness ==
    /\ pc = "exited"
    /\ Len(sessions) = 2
    /\ SessionFailed(2)
    /\ exit_code = 1

\* ------------------------------------------------- claims on the converter

Exited == pc = "exited"

Said(text) == \E i \in 1..Len(printed) : printed[i].msg = text

\* The command line asks for the batch form: its first argument is --batch.
UsesBatchFlag == Len(argv) >= 1 /\ argv[1] = <<BatchFlag>>

SingleRun == Len(argv) = 2

BatchRun == Len(argv) = 3 /\ argv[1] = <<BatchFlag>>

\* The run started with its input directory there and nothing but a
\* directory, if anything, at the path of the output directory.
BatchRunListed ==
    /\ BatchRun
    /\ argv[2] \in DOMAIN fs0 /\ fs0[argv[2]].kind = "dir"
    /\ argv[3] \in DOMAIN fs0 => fs0[argv[3]].kind = "dir"

\* The entries of the input directory when the script lists it, after the
\* output directory was created.
EntriesAtListing ==
    ListDir(IF argv[3] \in DOMAIN fs0 THEN fs0 ELSE Put(fs0, argv[3], Dir), argv[2])

\* The name ends in the four characters .vss, exactly as written.
EndsInDotVss(n) ==
    /\ Len(n) >= 4
    /\ n[Len(n) - 3] = "."
    /\ n[Len(n) - 2] = "v"
    /\ n[Len(n) - 1] = "s"
    /\ n[Len(n)] = "s"

\* The name ends in .vss in any mix of upper and lower case.
EndsInDotVssAnyCase(n) ==
    /\ Len(n) >= 4
    /\ n[Len(n) - 3] = "."
    /\ n[Len(n) - 2] \in {"v", "V"}
    /\ n[Len(n) - 1] \in {"s", "S"}
    /\ n[Len(n)] \in {"s", "S"}

CallInputs == {calls[i].input : i \in 1..Len(calls)}

Successes == Cardinality({i \in 1..Len(calls) : calls[i].ok})

NoConversion == calls = <<>> /\ loads = <<>> /\ saves = <<>>

\* C3: a single-file run whose input path is not there, and a batch run
\* whose input directory is missing or is not a directory, exit with code 1
\* without any conversion call, load or save; the batch run does not create
\* the output directory (the filesystem is left as it was).
C3_MissingInputExits ==
    LET noInput == SingleRun /\ argv[1] \notin DOMAIN fs0
        noDir   == /\ BatchRun
                   /\ argv[2] \in DOMAIN fs0 => fs0[argv[2]].kind # "dir"
    IN  (noInput \/ noDir) =>
            /\ NoConversion
            /\ fs = fs0
            /\ pc \in {"start", "exited"}
            /\ Exited => exit_code = 1

\* C3 witness: a batch run on an input path that is a regular file has
\* exited, and nothing is at the path of the output directory.
C3_Witness ==
    /\ Exited
    /\ BatchRun
    /\ argv[2] \in DOMAIN fs0 /\ fs0[argv[2]].kind = "file"
    /\ argv[3] \notin DOMAIN fs

\* The statement of C4 for a given reading of "ends in the suffix": with N >= 1
\* matching entries, one call per matching entry and the summary M/N, M the
\* number of calls that returned success.
BatchCountsFor(Matches(_)) ==
    LET matched == {n \in EntriesAtListing : Matches(n)}
        N == Cardinality(matched)
    IN  N >= 1 =>
            /\ Len(calls) = N
            /\ CallInputs = {Join(argv[2], n) : n \in matched}
            /\ printed[Len(printed)] = MsgCount("summary", Successes, N)
            /\ Successes >= 0 /\ Successes <= N

NoMatchFor(Matches(_)) ==
    (\A n \in EntriesAtListing : ~Matches(n)) =>
        /\ Said("no_vss_files")
        /\ NoConversion
        /\ ~Said("summary")

C6_SingleExactPaths ==
    (Exited /\ SingleRun /\ argv[1] \in DOMAIN fs0) =>
        /\ Len(calls) = 1
        /\ calls[1].input = argv[1]
        /\ calls[1].output = argv[2]
        /\ loads = <<argv[1]>>
        /\ saves \in {<<>>, <<argv[2]>>}
        /\ Said("converting") <=> saves = <<argv[2]>>
        /\ Said("converted") =>
               /\ calls[1].ok
               /\ argv[2] \in DOMAIN fs
               /\ fs[argv[2]] = [kind |-> "file", content |-> <<"svg", fs0[argv[1]].content[2]>>]
        /\ \A p \in (DOMAIN fs \cup DOMAIN fs0) \ {argv[2]} :
               p \in DOMAIN fs /\ p \in DOMAIN fs0 /\ fs[p] = fs0[p]

\* C6 witness: a single-file run has converted its input to an output path
\* where nothing was before.
C6_Witness ==
    /\ Exited
    /\ SingleRun
    /\ Said("converted")
    /\ argv[1] # argv[2]
    /\ argv[2] \notin DOMAIN fs0
    /\ argv[2] \in DOMAIN fs

\* C7 as stated: `input output` runs the single-file conversion, `--batch
\* input_dir output_dir` runs the batch conversion, every other argument list
\* prints the usage text and exits 1 without a conversion call, and a list
\* that starts with --batch is never handled as a single-file conversion
\* (no "Input file not found" message, no single conversion call).
C7_Original ==
    Exited =>
        LET single == Len(argv) = 2 /\ ~UsesBatchFlag
        IN  /\ (~single /\ ~BatchRun) =>
                   /\ Said("usage")
                   /\ exit_code = 1
                   /\ NoConversion
            /\ (UsesBatchFlag /\ ~BatchRun) =>
                   /\ ~Said("input_not_found")
                   /\ NoConversion

\* C9: once the path check has passed, the exit code is 0 whatever the
\* conversions returned: in a single-file run also when the conversion
\* returned False, in a batch run also when some or all conversions failed.
C9_ExitCodeZero ==
    Exited =>
        /\ (SingleRun /\ argv[1] \in DOMAIN fs0) => exit_code = 0
        /\ calls # <<>> => exit_code = 0
        /\ Said("summary") => exit_code = 0

\* C9 witness: a batch run in which both conversions failed has exited.
C9_Witness ==
    /\ Exited
    /\ BatchRun
    /\ Len(calls) = 2
    /\ Successes = 0
    /\ printed[Len(printed)] = MsgCount("summary", 0, 2)

\* The name with its last extension replaced by .svg; as os.path.splitext
\* has it, a name whose only dots lead it has no extension.
SvgNameOf(n) ==
    LET cut == {i \in 2..Len(n) : n[i] = "." /\ \E k \in 1..(i - 1) : n[k] # "."}
    IN  IF cut = {} THEN n \o <<".", "s", "v", "g">>
        ELSE SubSeq(n, 1, (CHOOSE i \in cut : \A j \in cut : j <= i) - 1) \o <<".", "s", "v", "g">>

\* C10 as stated: in a batch run every call pairs its input name with
\* output_dir/<name with the last extension replaced by .svg>, calls on
\* different input names have different output paths, and the M of the
\* summary is the number of distinct output files written.
C10_Original ==
    BatchRun =>
        /\ \A i \in 1..Len(calls) :
               calls[i].output = Join(argv[3], SvgNameOf(calls[i].input[Len(calls[i].input)]))
        /\ \A i, j \in 1..Len(calls) :
               calls[i].input # calls[j].input => calls[i].output # calls[j].output
        /\ (Exited /\ Said("summary")) =>
               printed[Len(printed)].m =
                   Cardinality({calls[i].output : i \in {k \in 1..Len(calls) : calls[k].ok}})

\* What the command line reads on filesystem f: the input path, or the
\* matching entries of the input directory.
InputsOn(f) ==
    IF SingleRun THEN {argv[1]} \cap DOMAIN f
    ELSE IF BatchRun THEN {Join(argv[2], n) : n \in {e \in ListDir(f, argv[2]) : EndsInDotVssAnyCase(e)}}
    ELSE {}

\* The run before this one left its input as it had found it.
InputUnchanged ==
    /\ InputsOn(prev.fs0) = InputsOn(prev.fs)
    /\ \A p \in InputsOn(prev.fs0) : prev.fs0[p] = prev.fs[p]

Pairs(cs) == {<<c.input, c.output>> : c \in cs}

\* C8 as stated: a second run of the same command line on unchanged input
\* makes the same set of conversion calls and leaves the same files with the
\* same contents as the first.
C8_Original ==
    (Exited /\ run > 1 /\ InputUnchanged) =>
        /\ Pairs({calls[i] : i \in 1..Len(calls)}) = Pairs(prev.calls)
        /\ fs = prev.fs

=============================================================================
